---- MODULE Spec2Model ----
(***************************************************************************)
(* Fault Lifecycle Engine of the pump digital twin:                        *)
(*   - the fault catalog            (backend/fault_scenarios.py)           *)
(*   - the StateTransitionManager   (backend/fault_scenarios.py)           *)
(*   - the progression predictor    (backend/fault_scenarios.py)           *)
(*   - the /api/inject-fault caller (backend/api.py)                       *)
(***************************************************************************)
EXTENDS Integers, Sequences, FiniteSets, TLC

(***************************************************************************)
(* Bounds of the model.                                                    *)
(***************************************************************************)
\* number of request handlers that run the inject-fault sequence at once
NumCallers == 2
\* longest edge list of the free scenario of a test catalog
MaxEdges == 2
\* the values of max_depth handed to get_full_progression_chain are
\* 0 .. MaxDepth and DeepDepth, a depth above the number of scenarios of
\* either catalog, which no path can use up
MaxDepth == 3
DeepDepth == 12

(***************************************************************************)
(* class Severity(Enum)                                                    *)
(***************************************************************************)
SEV_NORMAL == 0
SEV_LOW == 1
SEV_MEDIUM == 2
SEV_HIGH == 3
SEV_CRITICAL == 4

\* Python's None
None == "None"

(***************************************************************************)
(* FAULT_SCENARIOS: the catalog.  Of a FaultScenario the model keeps the   *)
(* id (the key), the severity and can_progress_to; of a FaultProgression   *)
(* the target_fault and the probability.  The remaining fields are text    *)
(* that no operation of the engine branches on.                            *)
(***************************************************************************)
FaultProgression(t, p) == [target_fault |-> t, probability |-> p]

FaultScenario(sev, progs) == [severity |-> sev, can_progress_to |-> progs]

\* FAULT_SCENARIOS with the target of one edge misspelt
FAULT_SCENARIOS_Misspelt ==
  [ NORMAL          |-> FaultScenario(SEV_NORMAL, <<>>),
    FILTER_CLOGGING |-> FaultScenario(SEV_LOW,
                          << FaultProgression("CAVITATION", 65),
                             FaultProgression("IMPELLER_WEAR", 25),
                             FaultProgression("OVERLOAD", 10) >>),
    MINOR_VIBRATION |-> FaultScenario(SEV_LOW,
                          << FaultProgression("BEARING_WEAR", 55),
                             FaultProgression("IMPELLER_WEAR", 30),
                             FaultProgression("SEAL_LEAK", 15) >>),
    CAVITATION      |-> FaultScenario(SEV_MEDIUM,
                          << FaultProgression("IMPELLER_WEAR", 60),
                             FaultProgression("BEARING_WEAR", 25),
                             FaultProgression("SEAL_LEAK", 15) >>),
    IMPELLER_WEAR   |-> FaultScenario(SEV_MEDIUM,
                          << FaultProgression("OVERLOAD", 50),
                             FaultProgression("BEARING_WEAR", 35),
                             FaultProgression("PUMP_SIEZURE", 15) >>),
    SEAL_LEAK       |-> FaultScenario(SEV_MEDIUM,
                          << FaultProgression("BEARING_WEAR", 45),
                             FaultProgression("WINDING_DEFECT", 35),
                             FaultProgression("PUMP_SEIZURE", 20) >>),
    BEARING_WEAR    |-> FaultScenario(SEV_HIGH,
                          << FaultProgression("PUMP_SEIZURE", 70),
                             FaultProgression("OVERLOAD", 30) >>),
    WINDING_DEFECT  |-> FaultScenario(SEV_HIGH,
                          << FaultProgression("OVERLOAD", 80),
                             FaultProgression("PUMP_SEIZURE", 20) >>),
    SUPPLY_FAULT    |-> FaultScenario(SEV_HIGH,
                          << FaultProgression("WINDING_DEFECT", 50),
                             FaultProgression("OVERLOAD", 35),
                             FaultProgression("BEARING_WEAR", 15) >>),
    OVERLOAD        |-> FaultScenario(SEV_CRITICAL,
                          << FaultProgression("PUMP_SEIZURE", 85),
                             FaultProgression("WINDING_DEFECT", 15) >>),
    PUMP_SEIZURE    |-> FaultScenario(SEV_CRITICAL, <<>>) ]

FAULT_SCENARIOS ==
  [ NORMAL          |-> FaultScenario(SEV_NORMAL, <<>>),
    FILTER_CLOGGING |-> FaultScenario(SEV_LOW,
                          << FaultProgression("CAVITATION", 65),
                             FaultProgression("IMPELLER_WEAR", 25),
                             FaultProgression("OVERLOAD", 10) >>),
    MINOR_VIBRATION |-> FaultScenario(SEV_LOW,
                          << FaultProgression("BEARING_WEAR", 55),
                             FaultProgression("IMPELLER_WEAR", 30),
                             FaultProgression("SEAL_LEAK", 15) >>),
    CAVITATION      |-> FaultScenario(SEV_MEDIUM,
                          << FaultProgression("IMPELLER_WEAR", 60),
                             FaultProgression("BEARING_WEAR", 25),
                             FaultProgression("SEAL_LEAK", 15) >>),
    IMPELLER_WEAR   |-> FaultScenario(SEV_MEDIUM,
                          << FaultProgression("OVERLOAD", 50),
                             FaultProgression("BEARING_WEAR", 35),
                             FaultProgression("PUMP_SEIZURE", 15) >>),
    SEAL_LEAK       |-> FaultScenario(SEV_MEDIUM,
                          << FaultProgression("BEARING_WEAR", 45),
                             FaultProgression("WINDING_DEFECT", 35),
                             FaultProgression("PUMP_SEIZURE", 20) >>),
    BEARING_WEAR    |-> FaultScenario(SEV_HIGH,
                          << FaultProgression("PUMP_SEIZURE", 70),
                             FaultProgression("OVERLOAD", 30) >>),
    WINDING_DEFECT  |-> FaultScenario(SEV_HIGH,
                          << FaultProgression("OVERLOAD", 80),
                             FaultProgression("PUMP_SEIZURE", 20) >>),
    SUPPLY_FAULT    |-> FaultScenario(SEV_HIGH,
                          << FaultProgression("WINDING_DEFECT", 50),
                             FaultProgression("OVERLOAD", 35),
                             FaultProgression("BEARING_WEAR", 15) >>),
    OVERLOAD        |-> FaultScenario(SEV_CRITICAL,
                          << FaultProgression("PUMP_SEIZURE", 85),
                             FaultProgression("WINDING_DEFECT", 15) >>),
    PUMP_SEIZURE    |-> FaultScenario(SEV_CRITICAL, <<>>) ]

\* FAULT_SCENARIOS.keys(): a dict iterates in insertion order
FAULT_SCENARIOS_keys ==
  << "NORMAL", "FILTER_CLOGGING", "MINOR_VIBRATION", "CAVITATION",
     "IMPELLER_WEAR", "SEAL_LEAK", "BEARING_WEAR", "WINDING_DEFECT",
     "SUPPLY_FAULT", "OVERLOAD", "PUMP_SEIZURE" >>

ScenarioIds == DOMAIN FAULT_SCENARIOS

\* ids a caller may hand in that the catalog does not hold
UnknownIds == {"GHOST_FAULT", "normal"}

TargetIds == ScenarioIds \cup UnknownIds

(***************************************************************************)
(* StateTransitionManager                                                  *)
(***************************************************************************)
\* what a method hands back: (allowed, reason) of can_transition_to,
\* (success, message, scenario) of transition_to; raised = an exception
\* left the method instead
Ret(ok, msg, scen) == [ok |-> ok, message |-> msg, scenario |-> scen, raised |-> FALSE]

Raised(exc) == [ok |-> FALSE, message |-> exc, scenario |-> None, raised |-> TRUE]

\* can_transition_to without the rule "from CRITICAL only to NORMAL"
can_transition_to_NoCriticalRule(cur, target_state) ==
  IF target_state \notin DOMAIN FAULT_SCENARIOS
    THEN Ret(FALSE, <<"Unknown state", target_state>>, None)
  ELSE IF cur \notin DOMAIN FAULT_SCENARIOS
    THEN Raised(<<"KeyError", cur>>)
  ELSE LET current == FAULT_SCENARIOS[cur]
           target == FAULT_SCENARIOS[target_state]
       IN  IF current.severity = SEV_NORMAL
             THEN Ret(TRUE, <<"Transition allowed from normal state", "">>, None)
           ELSE IF target.severity = SEV_NORMAL
             THEN Ret(TRUE, <<"Repair/Reset allowed", "">>, None)
           ELSE IF target.severity < current.severity
             THEN Ret(FALSE, <<"Cannot transition to a less severe state", cur>>, None)
           ELSE Ret(TRUE, <<"Transition allowed", "">>, None)

\* can_transition_to whose from-NORMAL rule lets a healthy pump go anywhere
\* but straight into a CRITICAL scenario
can_transition_to_NormalNotToCritical(cur, target_state) ==
  IF target_state \notin DOMAIN FAULT_SCENARIOS
    THEN Ret(FALSE, <<"Unknown state", target_state>>, None)
  ELSE IF cur \notin DOMAIN FAULT_SCENARIOS
    THEN Raised(<<"KeyError", cur>>)
  ELSE LET current == FAULT_SCENARIOS[cur]
           target == FAULT_SCENARIOS[target_state]
       IN  IF current.severity = SEV_NORMAL
             THEN Ret(target.severity # SEV_CRITICAL,
                      <<"Transition allowed from normal state", "">>, None)
           ELSE IF target.severity = SEV_NORMAL
             THEN Ret(TRUE, <<"Repair/Reset allowed", "">>, None)
           ELSE IF current.severity = SEV_CRITICAL
             THEN Ret(FALSE, <<"Critical state! You must first repair", "">>, None)
           ELSE IF target.severity < current.severity
             THEN Ret(FALSE, <<"Cannot transition to a less severe state", cur>>, None)
           ELSE Ret(TRUE, <<"Transition allowed", "">>, None)

\* can_transition_to with the severity comparison turned round (> for <)
can_transition_to_CmpFlipped(cur, target_state) ==
  IF target_state \notin DOMAIN FAULT_SCENARIOS
    THEN Ret(FALSE, <<"Unknown state", target_state>>, None)
  ELSE IF cur \notin DOMAIN FAULT_SCENARIOS
    THEN Raised(<<"KeyError", cur>>)
  ELSE LET current == FAULT_SCENARIOS[cur]
           target == FAULT_SCENARIOS[target_state]
       IN  IF current.severity = SEV_NORMAL
             THEN Ret(TRUE, <<"Transition allowed from normal state", "">>, None)
           ELSE IF target.severity = SEV_NORMAL
             THEN Ret(TRUE, <<"Repair/Reset allowed", "">>, None)
           ELSE IF current.severity = SEV_CRITICAL
             THEN Ret(FALSE, <<"Critical state! You must first repair", "">>, None)
           ELSE IF target.severity > current.severity
             THEN Ret(FALSE, <<"Cannot transition to a less severe state", cur>>, None)
           ELSE Ret(TRUE, <<"Transition allowed", "">>, None)

\* can_transition_to with the from-CRITICAL rule ahead of the to-NORMAL rule
can_transition_to_CriticalFirst(cur, target_state) ==
  IF target_state \notin DOMAIN FAULT_SCENARIOS
    THEN Ret(FALSE, <<"Unknown state", target_state>>, None)
  ELSE IF cur \notin DOMAIN FAULT_SCENARIOS
    THEN Raised(<<"KeyError", cur>>)
  ELSE LET current == FAULT_SCENARIOS[cur]
           target == FAULT_SCENARIOS[target_state]
       IN  IF current.severity = SEV_NORMAL
             THEN Ret(TRUE, <<"Transition allowed from normal state", "">>, None)
           ELSE IF current.severity = SEV_CRITICAL
             THEN Ret(FALSE, <<"Critical state! You must first repair", "">>, None)
           ELSE IF target.severity = SEV_NORMAL
             THEN Ret(TRUE, <<"Repair/Reset allowed", "">>, None)
           ELSE IF target.severity < current.severity
             THEN Ret(FALSE, <<"Cannot transition to a less severe state", cur>>, None)
           ELSE Ret(TRUE, <<"Transition allowed", "">>, None)

\* can_transition_to with the from-NORMAL rule ahead of the unknown-id rule
can_transition_to_NormalFirst(cur, target_state) ==
  IF cur \notin DOMAIN FAULT_SCENARIOS
    THEN Raised(<<"KeyError", cur>>)
  ELSE IF FAULT_SCENARIOS[cur].severity = SEV_NORMAL
    THEN Ret(TRUE, <<"Transition allowed from normal state", "">>, None)
  ELSE IF target_state \notin DOMAIN FAULT_SCENARIOS
    THEN Ret(FALSE, <<"Unknown state", target_state>>, None)
  ELSE LET current == FAULT_SCENARIOS[cur]
           target == FAULT_SCENARIOS[target_state]
       IN  IF target.severity = SEV_NORMAL
             THEN Ret(TRUE, <<"Repair/Reset allowed", "">>, None)
           ELSE IF current.severity = SEV_CRITICAL
             THEN Ret(FALSE, <<"Critical state! You must first repair", "">>, None)
           ELSE IF target.severity < current.severity
             THEN Ret(FALSE, <<"Cannot transition to a less severe state", cur>>, None)
           ELSE Ret(TRUE, <<"Transition allowed", "">>, None)

\* can_transition_to whose severity comparison also rejects an equal severity
\* (<= for <)
can_transition_to_EqualRejected(cur, target_state) ==
  IF target_state \notin DOMAIN FAULT_SCENARIOS
    THEN Ret(FALSE, <<"Unknown state", target_state>>, None)
  ELSE IF cur \notin DOMAIN FAULT_SCENARIOS
    THEN Raised(<<"KeyError", cur>>)
  ELSE LET current == FAULT_SCENARIOS[cur]
           target == FAULT_SCENARIOS[target_state]
       IN  IF current.severity = SEV_NORMAL
             THEN Ret(TRUE, <<"Transition allowed from normal state", "">>, None)
           ELSE IF target.severity = SEV_NORMAL
             THEN Ret(TRUE, <<"Repair/Reset allowed", "">>, None)
           ELSE IF current.severity = SEV_CRITICAL
             THEN Ret(FALSE, <<"Critical state! You must first repair", "">>, None)
           ELSE IF target.severity <= current.severity
             THEN Ret(FALSE, <<"Cannot transition to a less severe state", cur>>, None)
           ELSE Ret(TRUE, <<"Transition allowed", "">>, None)

\* StateTransitionManager.can_transition_to with self.current_state = cur
can_transition_to(cur, target_state) ==
  IF target_state \notin DOMAIN FAULT_SCENARIOS
    THEN Ret(FALSE, <<"Unknown state", target_state>>, None)
  ELSE IF cur \notin DOMAIN FAULT_SCENARIOS
    THEN Raised(<<"KeyError", cur>>)
  ELSE LET current == FAULT_SCENARIOS[cur]
           target == FAULT_SCENARIOS[target_state]
       IN  IF current.severity = SEV_NORMAL
             THEN Ret(TRUE, <<"Transition allowed from normal state", "">>, None)
           ELSE IF target.severity = SEV_NORMAL
             THEN Ret(TRUE, <<"Repair/Reset allowed", "">>, None)
           ELSE IF current.severity = SEV_CRITICAL
             THEN Ret(FALSE, <<"Critical state! You must first repair", "">>, None)
           ELSE IF target.severity < current.severity
             THEN Ret(FALSE, <<"Cannot transition to a less severe state", cur>>, None)
           ELSE Ret(TRUE, <<"Transition allowed", "">>, None)

RECURSIVE allowed_from(_, _, _)
\* the loop of get_allowed_transitions from key number i on
allowed_from(cur, keys, i) ==
  IF i > Len(keys) THEN <<>>
  ELSE (IF can_transition_to(cur, keys[i]).ok THEN <<keys[i]>> ELSE <<>>)
         \o allowed_from(cur, keys, i + 1)

\* StateTransitionManager.get_allowed_transitions
get_allowed_transitions(cur) == allowed_from(cur, FAULT_SCENARIOS_keys, 1)

\* StateTransitionManager.get_current_scenario: the id whose entry it returns
get_current_scenario(cur) ==
  IF cur \in DOMAIN FAULT_SCENARIOS THEN cur ELSE "NORMAL"

\* transition_to that stores the target before it validates
transition_to_WriteFirst(cur, target_state) ==
  LET chk == can_transition_to(cur, target_state)
  IN  IF chk.raised
        THEN [ret |-> chk, new_state |-> target_state]
      ELSE IF chk.ok
        THEN [ret |-> Ret(TRUE,
                          IF target_state = "NORMAL"
                            THEN <<"System repaired! (was)", cur>>
                            ELSE <<"injected", target_state>>,
                          target_state),
              new_state |-> target_state]
      ELSE [ret |-> Ret(FALSE, chk.message, None), new_state |-> target_state]

\* transition_to that reports success without storing the target
transition_to_NoWrite(cur, target_state) ==
  LET chk == can_transition_to(cur, target_state)
  IN  IF chk.raised
        THEN [ret |-> chk, new_state |-> cur]
      ELSE IF chk.ok
        THEN [ret |-> Ret(TRUE,
                          IF target_state = "NORMAL"
                            THEN <<"System repaired! (was)", cur>>
                            ELSE <<"injected", target_state>>,
                          target_state),
              new_state |-> cur]
      ELSE [ret |-> Ret(FALSE, chk.message, None), new_state |-> cur]

\* StateTransitionManager.transition_to: what it returns, and in new_state
\* the value of self.current_state when it returns
transition_to(cur, target_state) ==
  LET chk == can_transition_to(cur, target_state)
  IN  IF chk.raised
        THEN [ret |-> chk, new_state |-> cur]
      ELSE IF chk.ok
        THEN [ret |-> Ret(TRUE,
                          IF target_state = "NORMAL"
                            THEN <<"System repaired! (was)", cur>>
                            ELSE <<"injected", target_state>>,
                          target_state),
              new_state |-> target_state]
      ELSE [ret |-> Ret(FALSE, chk.message, None), new_state |-> cur]

VARIABLES
  current_state,   \* StateTransitionManager.current_state
  op,              \* the method of the manager called last
  arg,             \* its argument
  ret,             \* what it returned
  pc,              \* per request handler: where it is in inject_fault
  tgt,             \* per request handler: its target_state
  catalog,         \* the dict FAULT_SCENARIOS the predictor reads
  call,            \* the predictor call made last: function, id, max_depth
  stack,           \* the frames of build_tree, the innermost last
  result,          \* what the predictor call returned
  sensor_data,     \* the telemetry sample handed to the classifier
  detected,        \* what _detect_scenario_from_sensors returned for it
  pump_fault_state \* pump_simulator.fault_state, a value of FaultType

vars == <<current_state, op, arg, ret, pc, tgt, catalog, call, stack, result,
         sensor_data, detected, pump_fault_state>>

\* the variables of the predictor
fcvars == <<catalog, call, stack, result>>

\* the variables of the classifier
clvars == <<sensor_data, detected>>

Callers == 1 .. NumCallers

\* no request handler is inside inject_fault
HandlersIdle ==
  /\ pc = [c \in Callers |-> "idle"]
  /\ tgt = [c \in Callers |-> None]

\* no predictor call has been made
NoCall == [fn |-> None, id |-> None, max_depth |-> 0]

PredictorIdle ==
  /\ call = NoCall
  /\ stack = <<>>
  /\ result = [done |-> TRUE, value |-> <<>>]

\* no sample has been handed to the classifier
ClassifierIdle ==
  /\ sensor_data = <<>>
  /\ detected = [done |-> FALSE, scenario_id |-> None, confidence |-> 0]

\* FaultType of src/src/simulator.py: the values of the enumeration
FaultType ==
  { "Normal", "Winding Defect", "Supply Fault", "Cavitation", "Bearing Wear",
    "Overload" }

\* str.upper() on the fault types a request can carry
upper(fault_type) == IF fault_type = "normal" THEN "NORMAL" ELSE fault_type

\* api.py 287-302: fault_mapping.get(target_state, FaultType.NORMAL), the
\* FaultType the simulator is given for a scenario
simulator_fault(target_state) ==
  CASE target_state = "NORMAL"          -> "Normal"
    [] target_state = "WINDING_DEFECT"  -> "Winding Defect"
    [] target_state = "SUPPLY_FAULT"    -> "Supply Fault"
    [] target_state = "CAVITATION"      -> "Cavitation"
    [] target_state = "BEARING_WEAR"    -> "Bearing Wear"
    [] target_state = "OVERLOAD"        -> "Overload"
    [] target_state = "FILTER_CLOGGING" -> "Cavitation"
    [] target_state = "MINOR_VIBRATION" -> "Bearing Wear"
    [] target_state = "IMPELLER_WEAR"   -> "Cavitation"
    [] target_state = "SEAL_LEAK"       -> "Bearing Wear"
    [] target_state = "PUMP_SEIZURE"    -> "Overload"
    [] OTHER                            -> "Normal"

(***************************************************************************)
(* Spec: one caller at a time calls the methods of the manager.            *)
(***************************************************************************)
\* StateTransitionManager.__init__, nothing called yet
Init ==
  /\ current_state = "NORMAL"
  /\ op = "__init__"
  /\ arg = None
  /\ ret = Ret(TRUE, <<"", "">>, None)
  /\ HandlersIdle
  /\ pump_fault_state = "Normal"
  /\ catalog = FAULT_SCENARIOS
  /\ PredictorIdle
  /\ ClassifierIdle

CanTransitionTo(t) ==
  /\ op' = "can_transition_to"
  /\ arg' = t
  /\ ret' = can_transition_to(current_state, t)
  /\ UNCHANGED <<current_state, pc, tgt, fcvars, clvars, pump_fault_state>>

TransitionTo(t) ==
  LET r == transition_to(current_state, t)
  IN  /\ op' = "transition_to"
      /\ arg' = t
      /\ ret' = r.ret
      /\ current_state' = r.new_state
      /\ UNCHANGED <<pc, tgt, fcvars, clvars, pump_fault_state>>

GetAllowedTransitions ==
  /\ op' = "get_allowed_transitions"
  /\ arg' = None
  /\ ret' = get_allowed_transitions(current_state)
  /\ UNCHANGED <<current_state, pc, tgt, fcvars, clvars, pump_fault_state>>

GetCurrentScenario ==
  /\ op' = "get_current_scenario"
  /\ arg' = None
  /\ ret' = get_current_scenario(current_state)
  /\ UNCHANGED <<current_state, pc, tgt, fcvars, clvars, pump_fault_state>>

Next ==
  \/ \E t \in TargetIds : CanTransitionTo(t)
  \/ \E t \in TargetIds : TransitionTo(t)
  \/ GetAllowedTransitions
  \/ GetCurrentScenario

Spec == Init /\ [][Next]_vars

(***************************************************************************)
(* SpecConc: NumCallers request handlers run inject_fault on the one       *)
(* state_manager of api.py.  Neither inject_fault nor the manager takes a  *)
(* lock, so the handlers' steps interleave at the statements that read or  *)
(* write current_state:                                                    *)
(*   api.py 263              can_go, reason = can_transition_to(target)    *)
(*   fault_scenarios.py 670  can_go, reason = can_transition_to(target)    *)
(*   fault_scenarios.py 674  self.current_state = target_state             *)
(***************************************************************************)
\* api.py 260-283: target_state = fault_type.upper() and the handler's own
\* check; on False it returns "blocked"
InjectCheck(c, t) ==
  /\ pc[c] = "idle"
  /\ IF can_transition_to(current_state, upper(t)).ok
       THEN /\ pc' = [pc EXCEPT ![c] = "transition_to"]
            /\ tgt' = [tgt EXCEPT ![c] = upper(t)]
       ELSE /\ pc' = [pc EXCEPT ![c] = "blocked"]
            /\ tgt' = [tgt EXCEPT ![c] = upper(t)]
  /\ UNCHANGED <<current_state, op, arg, ret, fcvars, clvars, pump_fault_state>>

\* fault_scenarios.py 670-672, 683-684: transition_to validates again
TransitionValidate(c) ==
  /\ pc[c] = "transition_to"
  /\ IF can_transition_to(current_state, tgt[c]).ok
       THEN pc' = [pc EXCEPT ![c] = "write"]
       ELSE pc' = [pc EXCEPT ![c] = "error"]
  /\ UNCHANGED <<current_state, op, arg, ret, tgt, fcvars, clvars, pump_fault_state>>

\* fault_scenarios.py 673-682: the write of current_state, success returned
TransitionWrite(c) ==
  /\ pc[c] = "write"
  /\ current_state' = tgt[c]
  /\ pc' = [pc EXCEPT ![c] = "success"]
  /\ UNCHANGED <<op, arg, ret, tgt, fcvars, clvars, pump_fault_state>>

\* api.py 304-307 and the responses: on success the simulator is given the
\* FaultType of the target; the handler has sent "blocked", "error" or
\* "success"
InjectReturn(c) ==
  /\ pc[c] \in {"blocked", "error", "success"}
  /\ pc' = [pc EXCEPT ![c] = "idle"]
  /\ tgt' = [tgt EXCEPT ![c] = None]
  /\ pump_fault_state' = IF pc[c] = "success" THEN simulator_fault(tgt[c])
                                         ELSE pump_fault_state
  /\ UNCHANGED <<current_state, op, arg, ret, fcvars, clvars>>

NextConc ==
  \/ \E c \in Callers, t \in TargetIds : InjectCheck(c, t)
  \/ \E c \in Callers : TransitionValidate(c)
  \/ \E c \in Callers : TransitionWrite(c)
  \/ \E c \in Callers : InjectReturn(c)

SpecConc == Init /\ [][NextConc]_vars

(***************************************************************************)
(* SpecApi: the endpoints inject_fault and emergency_stop of api.py called *)
(* one after the other on one server, with its state_manager and its       *)
(* pump_simulator (a PumpSimulator, created at startup).                   *)
(***************************************************************************)
\* api.py 245-333: the whole handler of POST /api/inject-fault
InjectFault(fault_type) ==
  LET target_state == upper(fault_type)
      chk          == can_transition_to(current_state, target_state)
      r            == transition_to(current_state, target_state)
  IN  /\ op' = "inject_fault"
      /\ arg' = fault_type
      /\ IF ~chk.ok
           THEN /\ ret' = Ret(FALSE, <<"blocked", chk.message[1]>>, None)
                /\ UNCHANGED <<current_state, pump_fault_state>>
         ELSE IF r.ret.ok
           THEN /\ ret' = Ret(TRUE, <<"success", r.ret.message[1]>>, target_state)
                /\ current_state' = r.new_state
                /\ pump_fault_state' = simulator_fault(target_state)
         ELSE /\ ret' = Ret(FALSE, <<"error", r.ret.message[1]>>, None)
              /\ current_state' = r.new_state
              /\ UNCHANGED pump_fault_state
      /\ UNCHANGED <<pc, tgt, fcvars, clvars>>

\* api.py 336-350: POST /api/emergency-stop, and PumpSimulator.reset_fault
EmergencyStop ==
  /\ op' = "emergency_stop"
  /\ arg' = None
  /\ ret' = Ret(TRUE, <<"success", "PUMP_STOPPED">>, None)
  /\ pump_fault_state' = "Normal"
  /\ UNCHANGED <<current_state, pc, tgt, fcvars, clvars>>

NextApi ==
  \/ \E fault_type \in TargetIds : InjectFault(fault_type)
  \/ EmergencyStop

SpecApi == Init /\ [][NextApi]_vars

(***************************************************************************)
(* SpecForecast: the progression predictor, get_fault_progression and      *)
(* get_full_progression_chain.  Both read the module-level dict            *)
(* FAULT_SCENARIOS when they are called; the dict is their input.  It is   *)
(* the shipped catalog, or a three-scenario catalog A, B, C in which A     *)
(* declares any edge list of at most MaxEdges edges (undeclared targets,   *)
(* equal probabilities, edges back to A), B declares two edges of equal    *)
(* probability, one of them back to A, and C declares none.                *)
(***************************************************************************)
TestProbabilities == {30, 70}

TestTargets == {"A", "B", "C", "GHOST_FAULT"}

TestEdges == { FaultProgression(t, p) : t \in TestTargets, p \in TestProbabilities }

\* the sequences over S of length at most n
SeqUpTo(S, n) == UNION { [1 .. k -> S] : k \in 0 .. n }

TestCatalog(edgesA) ==
  [ A |-> FaultScenario(SEV_LOW, edgesA),
    B |-> FaultScenario(SEV_MEDIUM,
            << FaultProgression("A", 50), FaultProgression("C", 50) >>),
    C |-> FaultScenario(SEV_HIGH, <<>>) ]

Catalogs == {FAULT_SCENARIOS} \cup { TestCatalog(e) : e \in SeqUpTo(TestEdges, MaxEdges) }

Depths == 0 .. MaxDepth \cup {DeepDepth}

\* the ids a caller may ask the predictor about
CallIds == DOMAIN catalog \cup {"GHOST_FAULT"}

RECURSIVE insert_by_probability_Unstable(_, _)
\* the insertion of a sort that puts an entry ahead of its equals
insert_by_probability_Unstable(s, x) ==
  IF s = <<>> THEN <<x>>
  ELSE IF Head(s).probability > x.probability
    THEN <<Head(s)>> \o insert_by_probability_Unstable(Tail(s), x)
  ELSE <<x>> \o s

RECURSIVE insert_by_probability(_, _)
\* x put behind every entry of the sorted list s whose probability is not
\* below its own
insert_by_probability(s, x) ==
  IF s = <<>> THEN <<x>>
  ELSE IF Head(s).probability >= x.probability
    THEN <<Head(s)>> \o insert_by_probability(Tail(s), x)
  ELSE <<x>> \o s

RECURSIVE sort_first(_, _)
\* the first n entries of progressions, sorted
sort_first(progressions, n) ==
  IF n = 0 THEN <<>>
  ELSE insert_by_probability(sort_first(progressions, n - 1), progressions[n])

\* progressions.sort(key=lambda x: x["probability"], reverse=True): list.sort
\* is stable, and with reverse=True entries of equal key keep their order
sort_probability_reverse(progressions) == sort_first(progressions, Len(progressions))

RECURSIVE progressions_of(_, _)
\* the loop of get_fault_progression over can_progress_to from entry i on:
\* an edge whose target the catalog does not hold is skipped
progressions_of(edges, i) ==
  IF i > Len(edges) THEN <<>>
  ELSE (IF edges[i].target_fault \in DOMAIN catalog
          THEN << [ target_fault    |-> edges[i].target_fault,
                    target_severity |-> catalog[edges[i].target_fault].severity,
                    probability     |-> edges[i].probability ] >>
          ELSE <<>>)
         \o progressions_of(edges, i + 1)

\* get_fault_progression without its guard: for an id the catalog does not
\* hold, scenario is None and reading None.can_progress_to raises
get_fault_progression_NoGuard(scenario_id) ==
  IF scenario_id \notin DOMAIN catalog
    THEN << [ target_fault    |-> "AttributeError",
              target_severity |-> SEV_NORMAL,
              probability     |-> 0 ] >>
  ELSE sort_probability_reverse(progressions_of(catalog[scenario_id].can_progress_to, 1))

\* get_fault_progression
get_fault_progression(scenario_id) ==
  IF scenario_id \notin DOMAIN catalog THEN <<>>
  ELSE IF catalog[scenario_id].can_progress_to = <<>> THEN <<>>
  ELSE sort_probability_reverse(progressions_of(catalog[scenario_id].can_progress_to, 1))

\* build_tree returns None or a dict: a sequence of no or one dict
NoTree == <<>>

\* a frame of build_tree: its arguments, where it is ("enter" = at its first
\* statement, "loop" = in the for loop), and its locals
Frame(fault_id, depth, visited) ==
  [ fault_id     |-> fault_id,
    depth        |-> depth,
    visited      |-> visited,
    at           |-> "enter",
    progressions |-> <<>>,
    i            |-> 1,
    children     |-> <<>> ]

\* a recursive call that hands on its own depth
child_depth_Same(depth) == depth

\* the depth handed to the recursive call
child_depth(depth) == depth - 1

\* a guard that does not look at visited
build_tree_stops_DepthOnly(fault_id, depth, visited) == depth <= 0

\* the first statement of build_tree: depth <= 0 or fault_id in visited
build_tree_stops(fault_id, depth, visited) == depth <= 0 \/ fault_id \in visited

\* a visited set shared by reference: what the callee added is seen by the
\* caller and so by the branches the caller explores next
visited_after_call_Shared(own, callee) == callee

\* line 829: the callee works on visited.copy(), so the caller's own set is
\* what it was before the call
visited_after_call(own, callee) == own

\* a frame whose visited set is callee_visited returns value to its caller:
\* the frame below appends the child node and goes on with its next
\* progression; the outermost frame returns to the caller of
\* get_full_progression_chain
Return(below, value, callee_visited) ==
  IF below = <<>>
    THEN /\ stack' = <<>>
         /\ result' = [done |-> TRUE, value |-> value]
    ELSE LET par == below[Len(below)]
             prog == par.progressions[par.i]
             child_node ==
               [ target_fault    |-> prog.target_fault,
                 target_severity |-> prog.target_severity,
                 probability     |-> prog.probability,
                 children        |-> IF value = NoTree THEN <<>>
                                     ELSE value[1].progressions ]
         IN  /\ stack' = [below EXCEPT ![Len(below)] =
                            [par EXCEPT !.children = Append(@, child_node),
                                        !.i = @ + 1,
                                        !.visited =
                                           visited_after_call(@, callee_visited)]]
             /\ UNCHANGED result

InitForecast ==
  /\ current_state = "NORMAL"
  /\ op = "__init__"
  /\ arg = None
  /\ ret = Ret(TRUE, <<"", "">>, None)
  /\ HandlersIdle
  /\ pump_fault_state = "Normal"
  /\ catalog \in Catalogs
  /\ PredictorIdle
  /\ ClassifierIdle

\* a call of get_fault_progression(scenario_id)
GetFaultProgression(scenario_id) ==
  /\ stack = <<>>
  /\ result.done
  /\ call' = [fn |-> "get_fault_progression", id |-> scenario_id, max_depth |-> 0]
  /\ result' = [done |-> TRUE, value |-> get_fault_progression(scenario_id)]
  /\ UNCHANGED <<current_state, op, arg, ret, pc, tgt, clvars,
               pump_fault_state, catalog, stack>>

\* a call of get_full_progression_chain(scenario_id, max_depth):
\* build_tree(scenario_id, max_depth, set())
GetFullProgressionChain(scenario_id, max_depth) ==
  /\ stack = <<>>
  /\ result.done
  /\ call' = [fn |-> "get_full_progression_chain", id |-> scenario_id,
              max_depth |-> max_depth]
  /\ stack' = << Frame(scenario_id, max_depth, {}) >>
  /\ result' = [done |-> FALSE, value |-> <<>>]
  /\ UNCHANGED <<current_state, op, arg, ret, pc, tgt, clvars,
               pump_fault_state, catalog>>

\* build_tree lines 817-824: the guard, visited.add, the lookup, the forecast
BuildTreeEnter ==
  /\ stack # <<>>
  /\ LET top == stack[Len(stack)]
         below == SubSeq(stack, 1, Len(stack) - 1)
     IN  /\ top.at = "enter"
         /\ IF build_tree_stops(top.fault_id, top.depth, top.visited)
              THEN Return(below, NoTree, top.visited)
            ELSE IF top.fault_id \notin DOMAIN catalog
              THEN Return(below, NoTree, top.visited)
            ELSE /\ stack' = [stack EXCEPT ![Len(stack)] =
                                [top EXCEPT !.visited = @ \cup {top.fault_id},
                                            !.at = "loop",
                                            !.progressions =
                                               get_fault_progression(top.fault_id)]]
                 /\ UNCHANGED result
  /\ UNCHANGED <<current_state, op, arg, ret, pc, tgt, clvars,
               pump_fault_state, catalog, call>>

\* build_tree lines 827-829: the recursive call for the next progression,
\* with a copy of visited
BuildTreeRecurse ==
  /\ stack # <<>>
  /\ LET top == stack[Len(stack)]
     IN  /\ top.at = "loop"
         /\ top.i <= Len(top.progressions)
         /\ stack' = Append(stack,
                            Frame(top.progressions[top.i].target_fault,
                                  child_depth(top.depth), top.visited))
  /\ UNCHANGED <<current_state, op, arg, ret, pc, tgt, clvars,
               pump_fault_state, catalog, call, result>>

\* build_tree lines 836-841: the loop is over, the dict is returned
BuildTreeReturn ==
  /\ stack # <<>>
  /\ LET top == stack[Len(stack)]
         below == SubSeq(stack, 1, Len(stack) - 1)
     IN  /\ top.at = "loop"
         /\ top.i > Len(top.progressions)
         /\ Return(below, << [ fault_id     |-> top.fault_id,
                               severity     |-> catalog[top.fault_id].severity,
                               progressions |-> top.children ] >>,
                    top.visited)
  /\ UNCHANGED <<current_state, op, arg, ret, pc, tgt, clvars,
               pump_fault_state, catalog, call>>

\* a step of a running build_tree
BuildTreeStep == BuildTreeEnter \/ BuildTreeRecurse \/ BuildTreeReturn

NextForecast ==
  \/ \E id \in CallIds : GetFaultProgression(id)
  \/ \E id \in CallIds, d \in Depths : GetFullProgressionChain(id, d)
  \/ BuildTreeEnter
  \/ BuildTreeRecurse
  \/ BuildTreeReturn

\* build_tree is synchronous code: once called it runs on until it returns
SpecForecast == InitForecast /\ [][NextForecast]_vars /\ WF_vars(BuildTreeStep)

(***************************************************************************)
(* SpecClassify: MaintenanceAIAgent._detect_scenario_from_sensors of       *)
(* src/src/ai_agent.py, a pure function of one telemetry sample.           *)
(*                                                                         *)
(* Numbers are exact integers: sensor values, thresholds and score weights *)
(* are in tenths of the source's unit (vibration 5.8 is 58, weight 2.0 is  *)
(* 20), and a confidence is in 1/Scale of a percent, so that               *)
(* score / (total_checks * 2) * 100 is an integer for every total_checks   *)
(* the threshold table produces (3, 4, 5 and 6).                           *)
(***************************************************************************)
Scale == 60

\* SCENARIO_THRESHOLDS; description and rag_query are texts nothing branches on
SCENARIO_THRESHOLDS ==
  [ NORMAL          |-> [ vibration_max |-> 25, temp_max |-> 700,
                          current_max |-> 120, imbalance_max |-> 30,
                          voltage_min |-> 3800, voltage_max |-> 4200,
                          pressure_min |-> 40, flow_min |-> 130 ],
    FILTER_CLOGGING |-> [ vibration_range |-> <<15, 35>>,
                          pressure_range |-> <<35, 45>>,
                          flow_range |-> <<120, 140>>,
                          temp_range |-> <<600, 720>>,
                          priority |-> 1 ],
    MINOR_VIBRATION |-> [ vibration_range |-> <<30, 45>>,
                          temp_range |-> <<600, 720>>,
                          current_range |-> <<90, 120>>,
                          priority |-> 1 ],
    CAVITATION      |-> [ vibration_range |-> <<45, 65>>,
                          pressure_range |-> <<15, 30>>,
                          flow_range |-> <<100, 140>>,
                          temp_range |-> <<600, 750>>,
                          priority |-> 2 ],
    IMPELLER_WEAR   |-> [ vibration_range |-> <<40, 60>>,
                          flow_range |-> <<100, 130>>,
                          current_range |-> <<100, 130>>,
                          pressure_range |-> <<35, 50>>,
                          temp_range |-> <<600, 750>>,
                          priority |-> 2 ],
    SEAL_LEAK       |-> [ pressure_range |-> <<38, 50>>,
                          temp_range |-> <<700, 800>>,
                          vibration_range |-> <<20, 40>>,
                          priority |-> 2 ],
    BEARING_WEAR    |-> [ vibration_range |-> <<65, 95>>,
                          temp_range |-> <<800, 950>>,
                          current_range |-> <<100, 150>>,
                          pressure_range |-> <<30, 55>>,
                          priority |-> 3 ],
    WINDING_DEFECT  |-> [ imbalance_range |-> <<80, 250>>,
                          temp_range |-> <<850, 1000>>,
                          current_range |-> <<250, 350>>,
                          vibration_range |-> <<55, 80>>,
                          priority |-> 3 ],
    SUPPLY_FAULT    |-> [ voltage_range |-> <<3400, 3750>>,
                          voltage_high_range |-> <<4250, 4600>>,
                          imbalance_range |-> <<50, 200>>,
                          temp_range |-> <<700, 900>>,
                          priority |-> 3 ],
    OVERLOAD        |-> [ current_range |-> <<250, 450>>,
                          temp_range |-> <<900, 1050>>,
                          vibration_range |-> <<75, 110>>,
                          flow_range |-> <<30, 100>>,
                          priority |-> 4 ],
    PUMP_SEIZURE    |-> [ current_range |-> <<350, 600>>,
                          temp_range |-> <<950, 1200>>,
                          vibration_range |-> <<90, 150>>,
                          flow_range |-> <<0, 30>>,
                          pressure_range |-> <<0, 20>>,
                          priority |-> 4 ] ]

\* the keys of SCENARIO_THRESHOLDS in the order of the dict literal, which is
\* the order of scenario_scores.items() that the sort starts from
SCENARIO_THRESHOLDS_keys ==
  << "NORMAL", "FILTER_CLOGGING", "MINOR_VIBRATION", "CAVITATION",
     "IMPELLER_WEAR", "SEAL_LEAK", "BEARING_WEAR", "WINDING_DEFECT",
     "SUPPLY_FAULT", "OVERLOAD", "PUMP_SEIZURE" >>

\* fault_mapping: the labels of the simulator and the scenario each one names
fault_mapping ==
  [ k \in { "Winding Defect", "Supply Fault", "Cavitation", "Bearing Wear",
            "Overload", "Pump Seizure", "Filter Clogging", "Minor Vibration",
            "Impeller Wear", "Seal Leak" } |->
      CASE k = "Winding Defect"  -> "WINDING_DEFECT"
        [] k = "Supply Fault"    -> "SUPPLY_FAULT"
        [] k = "Cavitation"      -> "CAVITATION"
        [] k = "Bearing Wear"    -> "BEARING_WEAR"
        [] k = "Overload"        -> "OVERLOAD"
        [] k = "Pump Seizure"    -> "PUMP_SEIZURE"
        [] k = "Filter Clogging" -> "FILTER_CLOGGING"
        [] k = "Minor Vibration" -> "MINOR_VIBRATION"
        [] k = "Impeller Wear"   -> "IMPELLER_WEAR"
        [] k = "Seal Leak"       -> "SEAL_LEAK" ]

\* dict.get(key, default)
get(d, key, default) == IF key \in DOMAIN d THEN d[key] ELSE default

\* the dict {}
EmptyDict == [k \in {} |-> None]

\* lines 252-259: the readings of a sample, a default for every missing key
readings(sd) ==
  LET amps == get(sd, "amperage", EmptyDict)
  IN  [ voltage     |-> get(sd, "voltage", 4000),
        vibration   |-> get(sd, "vibration", 15),
        temperature |-> get(sd, "temperature", 650),
        pressure    |-> get(sd, "pressure", 50),
        flow        |-> get(sd, "flow_rate", 150),
        current     |-> get(amps, "average", 100),
        imbalance   |-> get(amps, "imbalance_pct", 0) ]

\* what one check adds to score, matches and total_checks
Check(score, matches) ==
  [score |-> score, matches |-> matches, total_checks |-> 1]

\* a check on a range the scenario does not declare
NoCheck == [score |-> 0, matches |-> 0, total_checks |-> 0]

\* lines 274-281
check_vibration(thresholds, vibration) ==
  IF "vibration_range" \notin DOMAIN thresholds THEN NoCheck
  ELSE LET vmin == thresholds.vibration_range[1]
           vmax == thresholds.vibration_range[2]
       IN  IF vmin <= vibration /\ vibration <= vmax THEN Check(20, 1)
           ELSE IF 10 * vibration > 9 * vmin /\ 10 * vibration < 11 * vmax
             THEN Check(8, 0)
           ELSE Check(0, 0)

\* lines 284-291
check_temperature(thresholds, temperature) ==
  IF "temp_range" \notin DOMAIN thresholds THEN NoCheck
  ELSE LET tmin == thresholds.temp_range[1]
           tmax == thresholds.temp_range[2]
       IN  IF tmin <= temperature /\ temperature <= tmax THEN Check(20, 1)
           ELSE IF 100 * temperature > 95 * tmin /\ 100 * temperature < 105 * tmax
             THEN Check(6, 0)
           ELSE Check(0, 0)

\* lines 294-301: the tolerance band has no upper end
check_current(thresholds, current) ==
  IF "current_range" \notin DOMAIN thresholds THEN NoCheck
  ELSE LET cmin == thresholds.current_range[1]
           cmax == thresholds.current_range[2]
       IN  IF cmin <= current /\ current <= cmax THEN Check(15, 1)
           ELSE IF 10 * current > 9 * cmin THEN Check(4, 0)
           ELSE Check(0, 0)

\* lines 304-311: the tolerance band has no upper end
check_imbalance(thresholds, imbalance) ==
  IF "imbalance_range" \notin DOMAIN thresholds THEN NoCheck
  ELSE LET imin == thresholds.imbalance_range[1]
           imax == thresholds.imbalance_range[2]
       IN  IF imin <= imbalance /\ imbalance <= imax THEN Check(15, 1)
           ELSE IF 10 * imbalance > 7 * imin THEN Check(5, 0)
           ELSE Check(0, 0)

\* lines 314-325: the low range and, where declared, the high range
check_voltage(thresholds, voltage) ==
  IF "voltage_range" \notin DOMAIN thresholds THEN NoCheck
  ELSE LET vmin == thresholds.voltage_range[1]
           vmax == thresholds.voltage_range[2]
           low  == vmin <= voltage /\ voltage <= vmax
           high == /\ "voltage_high_range" \in DOMAIN thresholds
                   /\ thresholds.voltage_high_range[1] <= voltage
                   /\ voltage <= thresholds.voltage_high_range[2]
       IN  Check((IF low THEN 12 ELSE 0) + (IF high THEN 12 ELSE 0),
                 (IF low THEN 1 ELSE 0) + (IF high THEN 1 ELSE 0))

\* lines 328-335: the tolerance band has no lower end
check_pressure(thresholds, pressure) ==
  IF "pressure_range" \notin DOMAIN thresholds THEN NoCheck
  ELSE LET pmin == thresholds.pressure_range[1]
           pmax == thresholds.pressure_range[2]
       IN  IF pmin <= pressure /\ pressure <= pmax THEN Check(10, 1)
           ELSE IF 10 * pressure < 13 * pmin THEN Check(4, 0)
           ELSE Check(0, 0)

\* lines 338-345: the tolerance band has no lower end
check_flow(thresholds, flow) ==
  IF "flow_range" \notin DOMAIN thresholds THEN NoCheck
  ELSE LET fmin == thresholds.flow_range[1]
           fmax == thresholds.flow_range[2]
       IN  IF fmin <= flow /\ flow <= fmax THEN Check(10, 1)
           ELSE IF 10 * flow < 12 * fmax THEN Check(3, 0)
           ELSE Check(0, 0)

\* lines 348-359: the pressure range is checked a second time
check_pressure_again(scenario_id, thresholds, pressure) ==
  IF "pressure_range" \notin DOMAIN thresholds THEN NoCheck
  ELSE LET pmin == thresholds.pressure_range[1]
           pmax == thresholds.pressure_range[2]
       IN  IF pmin <= pressure /\ pressure <= pmax
             THEN IF scenario_id = "CAVITATION" /\ pressure < 25
                    THEN Check(30, 1)
                    ELSE Check(10, 1)
           ELSE IF 10 * pressure > 8 * pmin THEN Check(4, 0)
           ELSE Check(0, 0)

\* the checks of one scenario in the order of lines 273-359
checks(scenario_id, r) ==
  LET thresholds == SCENARIO_THRESHOLDS[scenario_id]
  IN  << check_vibration(thresholds, r.vibration),
         check_temperature(thresholds, r.temperature),
         check_current(thresholds, r.current),
         check_imbalance(thresholds, r.imbalance),
         check_voltage(thresholds, r.voltage),
         check_pressure(thresholds, r.pressure),
         check_flow(thresholds, r.flow),
         check_pressure_again(scenario_id, thresholds, r.pressure) >>

RECURSIVE Sum(_, _, _)
\* the field f of the first n elements of s added up
Sum(s, f, n) == IF n = 0 THEN 0 ELSE Sum(s, f, n - 1) + s[n][f]

\* a confidence normalised against total_checks instead of total_checks * 2,
\* and not capped
confidence_of_HalfNormUncapped(score, matches, total_checks, priority) ==
  (score * 10 * Scale) \div total_checks
    + (IF 2 * matches >= total_checks THEN (priority - 1) * 5 * Scale ELSE 0)

\* lines 363-366: base_confidence, priority_boost and the cap at 100
confidence_of(score, matches, total_checks, priority) ==
  LET base_confidence == (score * 5 * Scale) \div total_checks
      priority_boost  == IF 2 * matches >= total_checks
                           THEN (priority - 1) * 5 * Scale
                           ELSE 0
      uncapped        == base_confidence + priority_boost
  IN  IF uncapped < 100 * Scale THEN uncapped ELSE 100 * Scale

\* lines 264-375: the entry of scenario_scores for one scenario
scored(scenario_id, r) ==
  LET c            == checks(scenario_id, r)
      score        == Sum(c, "score", Len(c))
      matches      == Sum(c, "matches", Len(c))
      total_checks == Sum(c, "total_checks", Len(c))
      priority     == get(SCENARIO_THRESHOLDS[scenario_id], "priority", 1)
  IN  [ score        |-> score,
        confidence   |-> IF total_checks > 0
                           THEN confidence_of(score, matches, total_checks, priority)
                           ELSE 0,
        matches      |-> matches,
        total_checks |-> total_checks,
        priority     |-> priority ]

\* lines 262-375: scenario_scores, an entry for every scenario but NORMAL
\* that declares at least one range
scenario_scores(r) ==
  [ id \in { i \in DOMAIN SCENARIO_THRESHOLDS :
               i # "NORMAL" /\ scored(i, r).total_checks > 0 } |->
      scored(id, r) ]

\* lines 378-387
is_normal(r) ==
  LET normal == SCENARIO_THRESHOLDS["NORMAL"]
  IN  /\ r.vibration <= normal.vibration_max
      /\ r.temperature <= normal.temp_max
      /\ r.current <= normal.current_max
      /\ r.imbalance <= normal.imbalance_max
      /\ normal.voltage_min <= r.voltage /\ r.voltage <= normal.voltage_max
      /\ r.pressure >= normal.pressure_min
      /\ r.flow >= normal.flow_min

\* the NORMAL return taken for every sample inside the NORMAL bounds
returns_normal_IgnoringScores(normal, scores) == normal

\* line 389: if is_normal and not scenario_scores
returns_normal(normal, scores) == normal /\ DOMAIN scores = {}

\* lines 393-409: the scenario an explicit label names, <<>> for none
labelled(sd) ==
  LET fault_state == get(sd, "fault_state", "Normal")
  IN  IF fault_state # "" /\ fault_state # "Normal"
           /\ fault_state \in DOMAIN fault_mapping
           /\ fault_mapping[fault_state] \in DOMAIN SCENARIO_THRESHOLDS
        THEN << fault_mapping[fault_state] >>
        ELSE <<>>

\* a sort on the confidence alone
sort_key_greater_ConfidenceOnly(a, b) == a.confidence > b.confidence

\* line 418: key = (priority, confidence) as reverse=True compares two
\* entries: a sorts ahead of b
sort_key_greater(a, b) ==
  \/ a.priority > b.priority
  \/ a.priority = b.priority /\ a.confidence > b.confidence

\* lines 416-421: sorted(...)[0], the first scenario in dict order among
\* those no other scenario's key exceeds (sorted is stable)
best_scenario(scores) ==
  LET ids  == SelectSeq(SCENARIO_THRESHOLDS_keys, LAMBDA i : i \in DOMAIN scores)
      top  == { k \in 1 .. Len(ids) :
                  \A j \in 1 .. Len(ids) :
                    ~sort_key_greater(scores[ids[j]], scores[ids[k]]) }
  IN  ids[CHOOSE k \in top : \A j \in top : k <= j]

\* the tuple (scenario_id, info, confidence) without info
Detected(scenario_id, confidence) ==
  [done |-> TRUE, scenario_id |-> scenario_id, confidence |-> confidence]

NotDetected == [done |-> FALSE, scenario_id |-> None, confidence |-> 0]

\* lines 239-429
_detect_scenario_from_sensors(sd) ==
  LET r      == readings(sd)
      scores == scenario_scores(r)
  IN  IF returns_normal(is_normal(r), scores)
        THEN Detected("NORMAL", 100 * Scale)
      ELSE IF labelled(sd) # <<>>
        THEN Detected(labelled(sd)[1], 95 * Scale)
      ELSE IF DOMAIN scores # {}
                /\ scores[best_scenario(scores)].confidence > 35 * Scale
        THEN Detected(best_scenario(scores),
                      scores[best_scenario(scores)].confidence)
      ELSE Detected("UNKNOWN", 30 * Scale)

\* the samples classified: every combination of a few readings per sensor
\* and a few labels, complete or with keys left out
Vibrations == {15, 58, 80}

Temperatures == {650, 680, 950}

Currents == {100, 110, 300}

Imbalances == {0, 20}

Voltages == {4000, 3600}

Pressures == {50, 40, 20}

FlowRates == {150, 120, 80}

\* the simulator's healthy label, an empty label, two labels of fault_mapping
\* and a scenario id, which is no key of fault_mapping
FaultStates == {"Normal", "", "Cavitation", "Overload", "CAVITATION"}

CompleteSamples ==
  { [ vibration   |-> vib,
      temperature |-> temp,
      voltage     |-> volt,
      pressure    |-> press,
      flow_rate   |-> flow,
      amperage    |-> [average |-> cur, imbalance_pct |-> imb],
      fault_state |-> fs ] :
      vib \in Vibrations, temp \in Temperatures, volt \in Voltages,
      press \in Pressures, flow \in FlowRates, cur \in Currents,
      imb \in Imbalances, fs \in FaultStates }

\* the dict d without the keys of dropped
Without(d, dropped) == [k \in DOMAIN d \ dropped |-> d[k]]

SampleKeys ==
  { "vibration", "temperature", "voltage", "pressure", "flow_rate",
    "amperage", "fault_state" }

\* no key missing, one key missing, every key missing
Dropped == {{}} \cup { {k} : k \in SampleKeys } \cup {SampleKeys}

\* a sample with keys left out: of the sample itself or of its amperage dict
Incomplete(s) ==
  { Without(s, d) : d \in Dropped }
    \cup { [s EXCEPT !.amperage = Without(@, {k})] :
             k \in {"average", "imbalance_pct"} }

InitClassify ==
  /\ current_state = "NORMAL"
  /\ op = "__init__"
  /\ arg = None
  /\ ret = Ret(TRUE, <<"", "">>, None)
  /\ HandlersIdle
  /\ pump_fault_state = "Normal"
  /\ catalog = FAULT_SCENARIOS
  /\ PredictorIdle
  /\ \E s \in CompleteSamples : sensor_data \in Incomplete(s)
  /\ detected = NotDetected

\* a call of _detect_scenario_from_sensors(sensor_data)
DetectScenarioFromSensors ==
  /\ ~detected.done
  /\ detected' = _detect_scenario_from_sensors(sensor_data)
  /\ UNCHANGED <<current_state, op, arg, ret, pc, tgt, fcvars, sensor_data,
               pump_fault_state>>

NextClassify == DetectScenarioFromSensors

SpecClassify == InitClassify /\ [][NextClassify]_vars

(***************************************************************************)
(* Properties of the transition manager                                    *)
(***************************************************************************)
Sev(id) == FAULT_SCENARIOS[id].severity

\* C1: a rejected transition_to(t), t known or unknown, leaves
\* current_state as it was before the call and returns
\* (False, the reason of can_transition_to, None).
C1_RejectedLeavesState ==
  [][ (op' = "transition_to" /\ ~ret'.ok) =>
        /\ current_state' = current_state
        /\ ~can_transition_to(current_state, arg').ok
        /\ ret' = Ret(FALSE, can_transition_to(current_state, arg').message, None)
    ]_vars

C1_Witness ==
  /\ op = "transition_to"
  /\ current_state = "OVERLOAD"
  /\ arg = "PUMP_SEIZURE"
  /\ ret = Ret(FALSE, <<"Critical state! You must first repair", "">>, None)

\* C2: in a CRITICAL state (OVERLOAD or PUMP_SEIZURE) the allowed
\* transitions are exactly NORMAL: every other catalog id, the current
\* scenario and the other CRITICAL scenario included, is rejected.
C2_CriticalOnlyNormal ==
  Sev(current_state) = SEV_CRITICAL =>
    /\ current_state \in {"OVERLOAD", "PUMP_SEIZURE"}
    /\ get_allowed_transitions(current_state) = <<"NORMAL">>
    /\ \A t \in ScenarioIds \ {"NORMAL"} : ~can_transition_to(current_state, t).ok
    /\ op = "get_allowed_transitions" => ret = <<"NORMAL">>
    /\ (op = "transition_to" /\ arg # current_state) => ~ret.ok

C2_Witness ==
  /\ current_state = "PUMP_SEIZURE"
  /\ op = "get_allowed_transitions"
  /\ ret = <<"NORMAL">>

\* C3: in state NORMAL can_transition_to(i) is true for every catalog id i,
\* NORMAL itself and both CRITICAL scenarios included.
C3_NormalAcceptsAll ==
  current_state = "NORMAL" =>
    /\ \A i \in ScenarioIds : can_transition_to(current_state, i).ok
    /\ (op = "can_transition_to" /\ arg \in ScenarioIds) => ret.ok

C3_Witness ==
  /\ current_state = "NORMAL"
  /\ op = "can_transition_to"
  /\ arg = "PUMP_SEIZURE"
  /\ ret.ok

\* C4: a catalog target other than NORMAL whose severity is below the
\* current severity is rejected, and no step lowers the severity of the
\* current scenario to a scenario other than NORMAL.
C4_NoLowerSeverity ==
  /\ [](\A t \in ScenarioIds :
          (Sev(t) < Sev(current_state) /\ t # "NORMAL")
            => ~can_transition_to(current_state, t).ok)
  /\ [][ Sev(current_state') < Sev(current_state)
           => current_state' = "NORMAL" ]_vars

C4_Witness ==
  /\ current_state = "BEARING_WEAR"
  /\ op = "transition_to"
  /\ arg = "CAVITATION"
  /\ ~ret.ok

\* C5: in every reachable state transition_to(NORMAL) is accepted and
\* leaves current_state = NORMAL, so no state is terminal.
C5_NormalAlwaysReenterable ==
  /\ transition_to(current_state, "NORMAL").ret.ok
  /\ transition_to(current_state, "NORMAL").new_state = "NORMAL"
  /\ (op = "transition_to" /\ arg = "NORMAL") => (ret.ok /\ current_state = "NORMAL")

C5_Witness ==
  /\ op = "transition_to"
  /\ arg = "NORMAL"
  /\ ret = Ret(TRUE, <<"System repaired! (was)", "PUMP_SEIZURE">>, "NORMAL")
  /\ current_state = "NORMAL"

\* C6: for a target that is not in the catalog can_transition_to returns
\* (False, unknown state) in every state, NORMAL included, and raises
\* nothing.
C6_UnknownRejected ==
  /\ \A u \in UnknownIds :
       can_transition_to(current_state, u) = Ret(FALSE, <<"Unknown state", u>>, None)
  /\ (op = "can_transition_to" /\ arg \notin ScenarioIds)
       => ret = Ret(FALSE, <<"Unknown state", arg>>, None)
  /\ op \in {"can_transition_to", "transition_to"} => ~ret.raised

C6_Witness ==
  /\ current_state = "NORMAL"
  /\ op = "can_transition_to"
  /\ arg = "GHOST_FAULT"
  /\ ret = Ret(FALSE, <<"Unknown state", "GHOST_FAULT">>, None)

\* C7: transition_to(t) succeeds exactly when can_transition_to(t) is true
\* in the state of the call; on success current_state is t and the scenario
\* returned is the catalog entry of t; current_state changes in no other
\* way.
C7_TransitionIffAllowed ==
  [][ /\ op' = "transition_to" =>
           /\ ret'.ok <=> can_transition_to(current_state, arg').ok
           /\ ret'.ok => /\ current_state' = arg'
                         /\ ret'.scenario = arg'
                         /\ arg' \in ScenarioIds
      /\ current_state' # current_state =>
           /\ op' = "transition_to"
           /\ ret'.ok
           /\ current_state' = arg'
    ]_vars

C7_Witness ==
  /\ op = "transition_to"
  /\ arg = "SEAL_LEAK"
  /\ ret = Ret(TRUE, <<"injected", "SEAL_LEAK">>, "SEAL_LEAK")
  /\ current_state = "SEAL_LEAK"

Declared(id) ==
  IF id \in DOMAIN catalog THEN progressions_of(catalog[id].can_progress_to, 1)
  ELSE <<>>

Edge(e) == [target_fault |-> e.target_fault, probability |-> e.probability]

Edges(list) == [k \in 1 .. Len(list) |-> Edge(list[k])]

WithProbability(list, p) == SelectSeq(list, LAMBDA e : e.probability = p)

\* list holds the entries of decl by probability descending, entries of
\* equal probability in the order they have in decl
RankedFrom(list, decl) ==
  /\ Len(list) = Len(decl)
  /\ \A k \in 1 .. Len(list) - 1 : list[k].probability >= list[k + 1].probability
  /\ \A k \in 1 .. Len(decl) :
       WithProbability(Edges(list), decl[k].probability)
         = WithProbability(Edges(decl), decl[k].probability)

RECURSIVE TreeRanked(_)
\* every child list below the nodes of list is empty (not expanded) or ranked
TreeRanked(list) ==
  \A k \in 1 .. Len(list) :
    /\ list[k].children = <<>> \/ RankedFrom(list[k].children, Declared(list[k].target_fault))
    /\ TreeRanked(list[k].children)

\* C9: the list get_fault_progression returns, and the child list of every
\* node at every level of the tree get_full_progression_chain returns, is
\* sorted by probability descending, entries of equal probability in
\* declaration order.
C9_RankedByProbability ==
  /\ (result.done /\ call.fn = "get_fault_progression")
       => RankedFrom(result.value, Declared(call.id))
  /\ (result.done /\ call.fn = "get_full_progression_chain" /\ result.value # NoTree)
       => /\ RankedFrom(result.value[1].progressions, Declared(call.id))
          /\ TreeRanked(result.value[1].progressions)
  /\ \A k \in 1 .. Len(stack) :
       stack[k].at = "loop"
         => RankedFrom(stack[k].progressions, Declared(stack[k].fault_id))

\* A declares C(30) before B(70): the tree of A lists B first, and under B
\* the equal edges A(50), C(50) in declaration order
C9_Witness ==
  /\ "A" \in DOMAIN catalog
  /\ catalog["A"].can_progress_to
       = << FaultProgression("C", 30), FaultProgression("B", 70) >>
  /\ call = [fn |-> "get_full_progression_chain", id |-> "A", max_depth |-> 3]
  /\ result.done
  /\ result.value # NoTree
  /\ Edges(result.value[1].progressions)
       = << FaultProgression("B", 70), FaultProgression("C", 30) >>
  /\ Edges(result.value[1].progressions[1].children)
       = << FaultProgression("A", 50), FaultProgression("C", 50) >>

\* the frames that are past the guard of build_tree
Expanded(k) == stack[k].at = "loop"

\* C10: get_full_progression_chain terminates for every id and max_depth,
\* cycles in the graph or not: no id is expanded twice on the current path,
\* every recursive call has a smaller depth than its caller, and every
\* call returns.
C10_TreeTerminates ==
  /\ [](\A j, k \in 1 .. Len(stack) :
          (j < k /\ Expanded(j) /\ Expanded(k)) => stack[j].fault_id # stack[k].fault_id)
  /\ [](\A k \in 2 .. Len(stack) : stack[k].depth < stack[k - 1].depth)
  /\ [](\A k \in 1 .. Len(stack) : Expanded(k) => stack[k].depth > 0)
  /\ (~result.done) ~> result.done

\* the shipped cycle: under WINDING_DEFECT the child OVERLOAD lists
\* WINDING_DEFECT again, not expanded although depth is left
C10_Witness ==
  /\ catalog = FAULT_SCENARIOS
  /\ call = [fn |-> "get_full_progression_chain", id |-> "WINDING_DEFECT",
             max_depth |-> DeepDepth]
  /\ result.done
  /\ result.value # NoTree
  /\ result.value[1].progressions[1].target_fault = "OVERLOAD"
  /\ result.value[1].progressions[1].children[2].target_fault = "WINDING_DEFECT"
  /\ result.value[1].progressions[1].children[2].children = <<>>

RECURSIVE Levels(_)
\* the number of levels of progression entries in list: the longest chain
\* of entries nested through children
Levels(list) ==
  IF list = <<>> THEN 0
  ELSE LET below == { Levels(list[k].children) : k \in 1 .. Len(list) }
       IN  1 + CHOOSE m \in below : \A n \in below : n <= m

\* a call of get_full_progression_chain with max_depth >= 1 has returned
\* a tree
TreeReturned ==
  /\ result.done
  /\ call.fn = "get_full_progression_chain"
  /\ call.max_depth >= 1
  /\ result.value # NoTree

\* C11 as stated: no path from the root down through the nested progression
\* entries of the tree get_full_progression_chain(id, max_depth) returns
\* holds more than max_depth nodes, the root counted, for max_depth >= 1.
C11_PathWithinMaxDepth ==
  TreeReturned => 1 + Levels(result.value[1].progressions) <= call.max_depth

\* C11 amended: no path from the root holds more than max_depth progression
\* entries below the root, that is more than max_depth + 1 nodes with the
\* root counted.
C11_PathWithinMaxDepthPlusRoot ==
  TreeReturned => 1 + Levels(result.value[1].progressions) <= call.max_depth + 1

\* FILTER_CLOGGING with max_depth 3: the root and three levels of entries
C11_Witness ==
  /\ catalog = FAULT_SCENARIOS
  /\ TreeReturned
  /\ call.id = "FILTER_CLOGGING"
  /\ call.max_depth = 3
  /\ Levels(result.value[1].progressions) = 3

\* the scenarios of the catalog that declare no edge
Terminal(id) == id \in DOMAIN catalog /\ catalog[id].can_progress_to = <<>>

\* C12: for an id the catalog does not hold and for a scenario without
\* outgoing edges (NORMAL, PUMP_SEIZURE) get_fault_progression returns the
\* empty list and get_full_progression_chain a forecast without progression
\* entries; neither raises.
C12_UnknownOrTerminalEmpty ==
  /\ catalog = FAULT_SCENARIOS => (Terminal("NORMAL") /\ Terminal("PUMP_SEIZURE"))
  /\ \A id \in CallIds :
       (id \notin DOMAIN catalog \/ Terminal(id)) => get_fault_progression(id) = <<>>
  /\ (result.done /\ (call.id \notin DOMAIN catalog \/ Terminal(call.id))) =>
       /\ call.fn = "get_fault_progression" => result.value = <<>>
       /\ call.fn = "get_full_progression_chain" =>
            \/ result.value = NoTree
            \/ result.value[1].progressions = <<>>
  /\ \A k \in 1 .. Len(stack) :
       (stack[k].at = "loop"
          /\ (stack[k].fault_id \notin DOMAIN catalog \/ Terminal(stack[k].fault_id)))
         => stack[k].progressions = <<>>

\* the tree of PUMP_SEIZURE: the scenario itself, no progression entry
C12_Witness ==
  /\ catalog = FAULT_SCENARIOS
  /\ call = [fn |-> "get_full_progression_chain", id |-> "PUMP_SEIZURE",
             max_depth |-> 3]
  /\ result.done
  /\ result.value # NoTree
  /\ result.value[1].fault_id = "PUMP_SEIZURE"
  /\ result.value[1].progressions = <<>>

(***************************************************************************)
(* Properties of the classifier                                            *)
(***************************************************************************)
\* the sample carries a label that names a scenario of the threshold table
KnownLabel(sd) ==
  /\ "fault_state" \in DOMAIN sd
  /\ sd.fault_state \notin {"", "Normal"}
  /\ sd.fault_state \in DOMAIN fault_mapping
  /\ fault_mapping[sd.fault_state] \in DOMAIN SCENARIO_THRESHOLDS \ {"NORMAL"}

\* C13: a sample whose fault_state label is present, non-normal and names a
\* known scenario is classified as that scenario with confidence 95, whatever
\* its sensor values are.
C13_LabelWins ==
  (detected.done /\ KnownLabel(sensor_data)) =>
    detected = Detected(fault_mapping[sensor_data.fault_state], 95 * Scale)

\* a sample labelled Cavitation whose readings all lie inside the NORMAL
\* bounds, classified as CAVITATION at 95
C13_Witness ==
  /\ detected.done
  /\ KnownLabel(sensor_data)
  /\ sensor_data.fault_state = "Cavitation"
  /\ is_normal(readings(sensor_data))
  /\ detected = Detected("CAVITATION", 95 * Scale)

\* the sample has no fault label: no fault_state key, or the healthy label
NoLabel(sd) == "fault_state" \in DOMAIN sd => sd.fault_state = "Normal"

\* the nominal sample of the simulator
NominalSample ==
  [ vibration   |-> 15,
    temperature |-> 650,
    voltage     |-> 4000,
    pressure    |-> 50,
    flow_rate   |-> 150,
    amperage    |-> [average |-> 100, imbalance_pct |-> 0],
    fault_state |-> "Normal" ]

\* C14: a sample with no fault label whose readings all lie inside the
\* NORMAL bounds, the nominal sample among them, is classified as NORMAL with
\* confidence 100 (no scenario is scored above 100).
C14_InBoundsIsNormal ==
  (/\ detected.done
   /\ NoLabel(sensor_data)
   /\ \/ is_normal(readings(sensor_data))
      \/ sensor_data = NominalSample) =>
    detected = Detected("NORMAL", 100 * Scale)

\* the sample of low pressure and raised vibration at normal temperature
LowPressureSample ==
  [ vibration   |-> 58,
    temperature |-> 680,
    pressure    |-> 20,
    flow_rate   |-> 120,
    amperage    |-> [average |-> 110, imbalance_pct |-> 20],
    fault_state |-> "Normal" ]

\* C15: the sample {vibration 5.8, temperature 68, current 11, imbalance 2,
\* pressure 2.0, flow 12, fault_state Normal} is classified as CAVITATION.
C15_LowPressureIsCavitation ==
  (detected.done /\ sensor_data = LowPressureSample) =>
    detected.scenario_id = "CAVITATION"

\* entry a comes before entry b in the order (priority descending,
\* confidence descending)
Ahead(a, b) ==
  \/ a.priority > b.priority
  \/ a.priority = b.priority /\ a.confidence > b.confidence

\* the scenarios that can stand first in that order
First(scores) ==
  { i \in DOMAIN scores : \A j \in DOMAIN scores : ~Ahead(scores[j], scores[i]) }

\* C16: without an explicit label the result is the first scenario in the
\* order (priority descending, confidence descending) with its confidence
\* when that confidence is strictly greater than 35, and UNKNOWN with
\* confidence 30 otherwise.
C16_FirstAboveFloorOrUnknown ==
  (detected.done /\ labelled(sensor_data) = <<>>) =>
    LET scores == scenario_scores(readings(sensor_data))
    IN  IF \E i \in First(scores) : scores[i].confidence > 35 * Scale
          THEN /\ detected.scenario_id \in First(scores)
               /\ detected.confidence = scores[detected.scenario_id].confidence
          ELSE detected = Detected("UNKNOWN", 30 * Scale)

\* a sample without label classified as OVERLOAD although a scenario of lower
\* priority has the greater confidence
C16_Witness ==
  /\ detected.done
  /\ labelled(sensor_data) = <<>>
  /\ detected.scenario_id = "OVERLOAD"
  /\ detected.confidence > 35 * Scale
  /\ \E i \in DOMAIN scenario_scores(readings(sensor_data)) :
       scenario_scores(readings(sensor_data))[i].confidence > detected.confidence

\* C19: for every sample the confidence of the result lies in [0, 100], and
\* so does the confidence of every entry of scenario_scores.
C19_ConfidenceInRange ==
  detected.done =>
    LET scores == scenario_scores(readings(sensor_data))
    IN  /\ 0 <= detected.confidence
        /\ detected.confidence <= 100 * Scale
        /\ \A i \in DOMAIN scores :
             0 <= scores[i].confidence /\ scores[i].confidence <= 100 * Scale

\* a classified sample one of whose scenarios is scored above 95
C19_Witness ==
  /\ detected.done
  /\ LET scores == scenario_scores(readings(sensor_data))
     IN  \E i \in DOMAIN scores : scores[i].confidence > 95 * Scale

(***************************************************************************)
(* Properties of the catalog                                               *)
(***************************************************************************)
\* every edge of the catalog c names a scenario of c other than its source
Consistent(c) ==
  \A id \in DOMAIN c :
    \A k \in 1 .. Len(c[id].can_progress_to) :
      LET target == c[id].can_progress_to[k].target_fault
      IN  target \in DOMAIN c /\ target # id

\* C17: in the catalog the engine runs on, the target of every progression
\* edge is itself a scenario id of the catalog and no scenario has an edge to
\* itself; and no operation of the engine writes the catalog after
\* initialisation.
C17_CatalogClosedAndFrozen ==
  /\ [](Consistent(catalog) /\ Consistent(FAULT_SCENARIOS))
  /\ [][catalog' = catalog]_vars

\* the manager has served operations on the shipped catalog, whose scenario
\* BEARING_WEAR has edges
C17_Witness ==
  /\ catalog = FAULT_SCENARIOS
  /\ Len(catalog["BEARING_WEAR"].can_progress_to) = 2
  /\ op = "transition_to"
  /\ current_state = "BEARING_WEAR"

\* C18: a catalog with a dangling edge is refused at load time: no operation
\* of the predictor is ever served from it.
C18_InconsistentCatalogRefused ==
  ~Consistent(catalog) => call = NoCall

C26_CurrentStateInCatalog ==
  /\ [](/\ current_state \in DOMAIN FAULT_SCENARIOS
        /\ get_current_scenario(current_state) = current_state)
  /\ [][ IF op' = "transition_to" /\ ret'.ok
           THEN current_state' = arg'
           ELSE current_state' = current_state ]_vars

\* an unknown target was refused while the pump was in CAVITATION
C26_Witness ==
  /\ op = "transition_to"
  /\ arg \in UnknownIds
  /\ ~ret.ok
  /\ current_state = "CAVITATION"

\* C27: every successful transition_to either targets NORMAL or leaves the
\* severity of the current scenario equal or higher, so between two visits
\* to NORMAL the severity never decreases.
C27_SeverityMonotoneUntilRepair ==
  [][ (op' = "transition_to" /\ ret'.ok) =>
        (arg' = "NORMAL" \/ Sev(current_state') >= Sev(current_state)) ]_vars

\* OVERLOAD (CRITICAL) entered by a successful transition_to
C27_Witness ==
  /\ op = "transition_to"
  /\ arg = "OVERLOAD"
  /\ ret.ok
  /\ current_state = "OVERLOAD"

(***************************************************************************)
(* Properties of the shipped catalog's edges                               *)
(***************************************************************************)
\* get_fault_progression(id) has returned on the shipped catalog, id a key
ForecastServed ==
  /\ catalog = FAULT_SCENARIOS
  /\ result.done
  /\ call.fn = "get_fault_progression"
  /\ call.id \in DOMAIN catalog

\* C23: every entry of forecast(id) is strictly more severe than id: the
\* target of every progression edge has a severity greater than that of the
\* scenario declaring the edge.
C23_ForecastMoreSevere ==
  ForecastServed =>
    \A k \in 1 .. Len(result.value) :
      result.value[k].target_severity > catalog[call.id].severity

\* C28: every entry of forecast(s) names a target that the transition
\* manager accepts when the current state is s.
C28_ForecastIsPermitted ==
  ForecastServed =>
    \A k \in 1 .. Len(result.value) :
      can_transition_to(call.id, result.value[k].target_fault).ok

(***************************************************************************)
(* Properties of the cycle guard                                           *)
(***************************************************************************)
RECURSIVE PathGuarded(_, _, _)
\* list is what build_tree makes of the progressions of a scenario whose
\* path from the root holds the ids of ancestors, with depth left for the
\* calls on the targets: a target is not expanded when depth is used up,
\* when it is one of ancestors or when it is no scenario, and otherwise it is
\* expanded with its whole forecast, whatever other branches hold
PathGuarded(list, ancestors, depth) ==
  \A k \in 1 .. Len(list) :
    LET target == list[k].target_fault
    IN  IF depth <= 0 \/ target \in ancestors \/ target \notin DOMAIN catalog
          THEN list[k].children = <<>>
          ELSE /\ Edges(list[k].children) = Edges(get_fault_progression(target))
               /\ PathGuarded(list[k].children, ancestors \cup {target}, depth - 1)

\* C22: the cycle guard is per path: in the tree returned by
\* get_full_progression_chain a target is left unexpanded only if its id is
\* among its ancestors on the path from the root, the depth is used up or
\* the id is unknown; a scenario expanded in one branch is expanded in full
\* in every other branch too.  While build_tree runs, the visited set of
\* every frame holds exactly the ids of the frames it was called from.
C22_GuardPerPath ==
  /\ (result.done /\ call.fn = "get_full_progression_chain"
        /\ result.value # NoTree) =>
       PathGuarded(result.value[1].progressions, {call.id}, call.max_depth - 1)
  /\ \A k \in 1 .. Len(stack) :
       stack[k].visited =
         { stack[j].fault_id : j \in 1 .. (IF stack[k].at = "loop" THEN k ELSE k - 1) }

\* FILTER_CLOGGING to depth 3: IMPELLER_WEAR is expanded below CAVITATION
\* and again, in full, as the second progression of the root
C22_Witness ==
  /\ catalog = FAULT_SCENARIOS
  /\ call = [fn |-> "get_full_progression_chain", id |-> "FILTER_CLOGGING",
             max_depth |-> 3]
  /\ result.done
  /\ result.value # NoTree
  /\ result.value[1].progressions[1].target_fault = "CAVITATION"
  /\ result.value[1].progressions[1].children[1].target_fault = "IMPELLER_WEAR"
  /\ Len(result.value[1].progressions[1].children[1].children) = 3
  /\ result.value[1].progressions[2].target_fault = "IMPELLER_WEAR"
  /\ Len(result.value[1].progressions[2].children) = 3

(***************************************************************************)
(* Properties of the classifier's scoring                                  *)
(***************************************************************************)
\* the checks that have a partial weight: position in checks, the range
\* checked and the reading compared with it
BandedChecks ==
  { <<1, "vibration_range", "vibration">>,
    <<2, "temp_range", "temperature">>,
    <<3, "current_range", "current">>,
    <<4, "imbalance_range", "imbalance">>,
    <<6, "pressure_range", "pressure">>,
    <<7, "flow_range", "flow">>,
    <<8, "pressure_range", "pressure">> }

\* value is less than half the lower bound of range or more than one and a
\* half times its upper bound: outside every tolerance band of the scoring
FarFrom(range, value) == 2 * value < range[1] \/ 2 * value > 3 * range[2]

\* C24: for every scenario and every dimension it declares a range for, a
\* value far away from the range on either side earns zero (and so is no
\* match).
C24_FarEarnsZero ==
  detected.done =>
    \A id \in DOMAIN SCENARIO_THRESHOLDS \ {"NORMAL"} :
      \A b \in BandedChecks :
        LET thresholds == SCENARIO_THRESHOLDS[id]
            r          == readings(sensor_data)
        IN  (b[2] \in DOMAIN thresholds /\ FarFrom(thresholds[b[2]], r[b[3]])) =>
              /\ checks(id, r)[b[1]].score = 0
              /\ checks(id, r)[b[1]].matches = 0

\* the sample carries no value for a reading
Missing(sd, reading) ==
  CASE reading = "current" ->
         IF "amperage" \in DOMAIN sd THEN "average" \notin DOMAIN sd.amperage
                                     ELSE TRUE
    [] reading = "imbalance" ->
         IF "amperage" \in DOMAIN sd THEN "imbalance_pct" \notin DOMAIN sd.amperage
                                     ELSE TRUE
    [] reading = "flow" -> "flow_rate" \notin DOMAIN sd
    [] OTHER -> reading \notin DOMAIN sd

\* every check: position in checks and the reading it looks at
AllChecks ==
  { <<b[1], b[3]>> : b \in BandedChecks } \cup { <<5, "voltage">> }

\* C25: a sample that lacks sensor dimensions is classified, and a missing
\* dimension is a dimension that did not match: it adds nothing to the score
\* or to the match count of any scenario.
C25_MissingAddsNothing ==
  detected.done =>
    /\ detected.scenario_id \in DOMAIN SCENARIO_THRESHOLDS \cup {"UNKNOWN"}
    /\ \A id \in DOMAIN SCENARIO_THRESHOLDS \ {"NORMAL"} :
         \A c \in AllChecks :
           Missing(sensor_data, c[2]) =>
             /\ checks(id, readings(sensor_data))[c[1]].score = 0
             /\ checks(id, readings(sensor_data))[c[1]].matches = 0

\* the reading lies inside the range name wherever thresholds declares it
Within(thresholds, name, value) ==
  name \in DOMAIN thresholds =>
    (thresholds[name][1] <= value /\ value <= thresholds[name][2])

\* the readings r lie inside every range the scenario id declares
InsideEveryRange(id, r) ==
  LET thresholds == SCENARIO_THRESHOLDS[id]
  IN  /\ Within(thresholds, "vibration_range", r.vibration)
      /\ Within(thresholds, "temp_range", r.temperature)
      /\ Within(thresholds, "current_range", r.current)
      /\ Within(thresholds, "imbalance_range", r.imbalance)
      /\ \/ Within(thresholds, "voltage_range", r.voltage)
         \/ /\ "voltage_high_range" \in DOMAIN thresholds
            /\ Within(thresholds, "voltage_high_range", r.voltage)
      /\ Within(thresholds, "pressure_range", r.pressure)
      /\ Within(thresholds, "flow_range", r.flow)

\* C30: when a sample without label lies inside every range declared by a
\* scenario S other than NORMAL, the result is not UNKNOWN: it is S, or a
\* scenario ahead of S in the order (priority, confidence), with a
\* confidence above the floor of 35.
C30_FullMatchIsClassified ==
  (detected.done /\ NoLabel(sensor_data)) =>
    LET r      == readings(sensor_data)
        scores == scenario_scores(r)
    IN  \A S \in DOMAIN SCENARIO_THRESHOLDS \ {"NORMAL"} :
          InsideEveryRange(S, r) =>
            /\ detected.scenario_id # "UNKNOWN"
            /\ detected.confidence > 35 * Scale
            /\ \/ detected.scenario_id = S
               \/ /\ detected.scenario_id \in DOMAIN scores
                  /\ Ahead(scores[detected.scenario_id], scores[S])

(***************************************************************************)
(* Properties of the API: manager and simulator                            *)
(***************************************************************************)
\* C29: after any sequence of inject_fault and emergency_stop calls the
\* current scenario of the transition manager is NORMAL if and only if the
\* fault state of the simulator is Normal.
C29_ManagerFollowsSimulator ==
  (current_state = "NORMAL") <=> (pump_fault_state = "Normal")

====
